---- MODULE Spec2Model ----
(***************************************************************************)
(* State-machine model of the cloudy service orchestrator                  *)
(* (src/server/services.js), its file-backed store (src/server/storage.js) *)
(* and the container engine adapter (src/server/docker.js).                *)
(*                                                                         *)
(* The orchestrator runs on one event-loop thread: every action below is   *)
(* one run-to-completion turn of the code (from a call or a resumed await  *)
(* up to the next await, return or throw).                                 *)
(***************************************************************************)
EXTENDS Integers, Sequences, FiniteSets, TLC

\* ---------------------------------------------------------------- bounds
\* number of deployService calls
MaxDeploys == 2
\* number of rebuildRepository calls
MaxRebuilds == 1
\* candidate ports are PortBase .. PortBase + PortRange (60000 in the code)
PortRange == 1
\* number of steps (event-loop turns and environment events) in one behaviour
MaxTurns == 7
\* steps in one behaviour of SpecShort
ShortTurns == 5
\* number of createServiceKey calls
MaxKeyCalls == 3
\* number of distinct values sha256(randomBytes(256)) is drawn from
NumKeyValues == 2
\* steps of the behaviours of a FileStorage on its own
StorageTurns == 4
\* longest repository or head name tried on getServiceId
\* steps of the behaviours in which two deploys of one identity interleave
RaceTurns == 8
\* steps of the behaviours of the webhook front end
HookTurns == 4
MaxLen == 2
Alphabet == {"a", "b"}

\* lower end of the port range, services.js:157
PortBase == 3000

Repositories == {<<"x">>, <<"y">>}
Heads == {<<"m">>}

DeployCalls == 1 .. MaxDeploys
RebuildCalls == (MaxDeploys + 1) .. (MaxDeploys + MaxRebuilds)
KeyCalls == (MaxDeploys + MaxRebuilds + 1) .. (MaxDeploys + MaxRebuilds + MaxKeyCalls)
Calls == DeployCalls \cup RebuildCalls \cup KeyCalls

\* null, the default of FileStorage.get
Null == 0

VARIABLES
  objs,        \* heap: deploy call c -> the ServiceConfiguration object it created
  services,    \* FileStorage.for('services'): [data, file, writing]
  serviceKeys, \* FileStorage.for('serviceKeys'): [data, file, writing]
  building,    \* ServiceManager.building
  running,     \* container engine: name of running container -> host ports
  nginxConf,   \* reverse proxy: service id -> ports of the written configuration
  nginxLive,   \* reverse proxy: the configuration in force since the last reload
  pc,          \* per call: where the call stands for its caller
  arg,         \* per call: the arguments it was called with
  result,      \* per call: what the caller got (a value or a raised error)
  timers,      \* deploy calls whose setTimeout callback is pending
  cfgOf,       \* per call: the object its rebuildService execution works on
  rb,          \* per call: state of its rebuildService execution
  pos,         \* per call: index in rebuildOrder where the execution resumes
  steps,       \* per call: the adapter steps its rebuildService issued, in order
  thrown,      \* per call: the error its rebuildService threw
  unhandled,   \* rejected promises nobody handles
  logged,      \* what logger.error wrote
  listing,     \* the last return of a getAllServices call from the CLI
  turns,       \* steps taken so far
  hosted,      \* source host: the repositories that exist there
  storage,     \* a FileStorage of plain values: [data, file, writing]
  last,        \* the last mutation of storage that returned
  probe,       \* two (repository, head) pairs and the identities computed for them
  hook         \* the webhook front end: lock file, process state, last request

vars == <<objs, services, serviceKeys, building, running, nginxConf, nginxLive,
          pc, arg, result, timers, cfgOf, rb, pos, steps, thrown, unhandled,
          logged, listing, turns, hosted, storage, last, probe, hook>>

\* the state of the orchestrator, and the state the other programs add
core == <<objs, services, serviceKeys, building, running, nginxConf, nginxLive,
          pc, arg, result, timers, cfgOf, rb, pos, steps, thrown, unhandled,
          logged, listing, hosted>>
aux == <<storage, last, probe, hook>>

\* ------------------------------------------------------------- hashing
\* createHash('sha256').update(value).digest('hex'): the digest of value,
\* kept as a tagged value (collision-free idealisation of the hash)
sha256(value) == <<"sha256">> \o value

getServiceId(repository, head) == sha256(repository \o head)

\* -------------------------------------------------------- storage.js
\* a JS object as a function whose DOMAIN is the set of its keys
EmptyObject == [k \in {} |-> Null]

\* JSON.stringify(target.data): stored references are written out by value
stringify(data, heap) ==
  [k \in DOMAIN data |-> IF data[k] \in DOMAIN heap THEN heap[data[k]] ELSE data[k]]

\* init(target, name) with no file on disk
init == [data |-> EmptyObject, file |-> EmptyObject, writing |-> {}]

\* save(target): starts writeFile with the snapshot taken now; nobody awaits it
save(target, heap) ==
  [target EXCEPT !.writing = @ \cup {stringify(target.data, heap)}]

set(target, name, value, heap) ==
  save([target EXCEPT !.data = (name :> value) @@ @], heap)

\* JS values as integers: null is 0, the other falsy values are negative,
\* object references, keys and truthy numbers are positive
JsZero == 0 - 1
JsFalse == 0 - 2
JsEmptyString == 0 - 3
Falsy(value) == value <= Null

\* get(name, defaultValue = null): this.data[name] || defaultValue
get(target, name) ==
  IF name \in DOMAIN target.data /\ ~Falsy(target.data[name])
  THEN target.data[name] ELSE Null

getAll(target) == {target.data[k] : k \in DOMAIN target.data}

has(target, name) == name \in DOMAIN target.data

\* delete(name), lines 39-42
delete(target, name, heap) ==
  save([target EXCEPT !.data = [k \in (DOMAIN @) \ {name} |-> @[k]]], heap)

\* init(target, name) with a file on disk: the data is what the file holds
load(file) == [data |-> file, file |-> file, writing |-> {}]

\* a pending writeFile completes: the file now holds that snapshot
writeFileDone(target, snapshot) ==
  [target EXCEPT !.file = snapshot, !.writing = @ \ {snapshot}]

\* -------------------------------------------------------- docker.js
\* Docker.getRunningContainers(): the names docker ps lists
getRunningContainers(containers) == DOMAIN containers

Range(seq) == {seq[i] : i \in DOMAIN seq}

Remove(f, k) == [x \in (DOMAIN f) \ {k} |-> f[x]]

\* -------------------------------------------------------- services.js
NoImage == "none"
Built == "img"

\* getAllServices(): the stored objects, those whose id is a running
\* container's name marked online. The objects of the result ARE the stored
\* objects (getAll returns references), so the mark lands on the heap.
getAllServices(heap, store, containers) ==
  LET allServices == getAll(store)
      runningServices == getRunningContainers(containers)
      marked == {r \in allServices : heap[r].id \in runningServices}
      heap2 == [r \in DOMAIN heap |->
                  IF r \in marked THEN [heap[r] EXCEPT !.online = TRUE] ELSE heap[r]]
  IN [heap |-> heap2, value |-> {heap2[r] : r \in allServices}]

\* the values newRandomPort() can return
PortSet == PortBase .. (PortBase + PortRange)

\* getRandomPort(): the ports the while loop can return, given the listing
FreePorts(listed) ==
  LET portsInUse == UNION {Range(service.ports) : service \in listed}
  IN PortSet \ portsInUse

\* createServiceConfiguration(service) once both getRandomPort calls have
\* returned httpPort and wsPort (type, url, cloneUrl and domains are inert
\* data no operation reads back and are left out)
createServiceConfiguration(service, httpPort, wsPort) ==
  LET hasWebSocket == service.webSocket
  IN [id |-> getServiceId(service.repository, service.head),
      repository |-> service.repository,
      branch |-> service.head,
      webSocket |-> hasWebSocket,
      ports |-> IF hasWebSocket THEN <<httpPort, wsPort>> ELSE <<httpPort>>,
      env |-> IF hasWebSocket
              THEN [PORT |-> httpPort, WEBSOCKET_PORT |-> wsPort]
              ELSE [PORT |-> httpPort, WEBSOCKET_PORT |-> Null],
      imageId |-> NoImage,
      online |-> FALSE]

\* ---- rebuildService: the adapter calls, in the order the try block makes them
rebuildOrderStopFirst == <<"stop", "build", "run", "configure", "reload">>

rebuildOrder == <<"build", "stop", "run", "configure", "reload">>

\* the part of the state the adapters act on
world == [objs |-> objs, running |-> running,
          nginxConf |-> nginxConf, nginxLive |-> nginxLive]

\* what a step does when it succeeds
StepEffect(step, ref, w) ==
  LET service == w.objs[ref]
  IN CASE step = "build" ->      \* createImage: service.imageId = imageId
            [w EXCEPT !.objs = [@ EXCEPT ![ref].imageId = Built]]
       [] step = "stop" ->       \* stopService: docker stop if it is running
            [w EXCEPT !.running = Remove(@, service.id)]
       [] step = "run" ->        \* runService: docker run --name id -p ports
            [w EXCEPT !.running = (service.id :> service.ports) @@ @]
       [] step = "configure" ->  \* Nginx.configureService
            [w EXCEPT !.nginxConf = (service.id :> service.ports) @@ @]
       [] step = "reload" ->     \* Nginx.reload
            [w EXCEPT !.nginxLive = w.nginxConf]

\* stopService runs no command (and so cannot fail) when nothing is running
CanFail(step, ref, w) ==
  step = "stop" => w.objs[ref].id \in getRunningContainers(w.running)

\* the engine refuses a host port another container has bound
MustFail(step, ref, w) ==
  /\ step = "run"
  /\ \E name \in (DOMAIN w.running) \ {w.objs[ref].id} :
        Range(w.running[name]) \cap Range(w.objs[ref].ports) # {}

\* the error a failing step throws (createImage wraps it, docker.js:45-47)
stepError(step) ==
  [step |-> step,
   message |-> IF step = "build" THEN "Failed to create image" ELSE "command failed"]

NoError == [step |-> "none", message |-> ""]

\* the errors thrown on lines 57 and 145
notFound == [step |-> "lookup", message |-> "Service configuration not found"]
notRegistered == <<"Service not registered", "">>

\* Runs the steps of order from index i on: a step that fails ends the
\* execution (catch), the awaited configure step suspends it.
RECURSIVE runFrom(_, _, _, _, _)
runFrom(order, i, ref, failAt, st) ==
  IF i > Len(order) THEN [st EXCEPT !.status = "done"]
  ELSE LET step == order[i]
           issued == [st EXCEPT !.steps = Append(@, step), !.next = i + 1]
       IN IF step = "configure"
          THEN [issued EXCEPT !.status = "suspended"]
          ELSE IF step = failAt
          THEN [issued EXCEPT !.status =
                   IF CanFail(step, ref, st.w) THEN "failed" ELSE "invalid"]
          ELSE IF MustFail(step, ref, st.w)
          THEN [issued EXCEPT !.status = "invalid"]
          ELSE runFrom(order, i + 1, ref, failAt,
                       [issued EXCEPT !.w = StepEffect(step, ref, st.w)])

\* the flag after a turn of rebuildService: line 65 sets it, the catch clears it
buildingAfterNoClear(starts, status) ==
  IF starts THEN TRUE ELSE building

buildingAfter(starts, status) ==
  IF status = "failed" THEN FALSE
  ELSE IF starts THEN TRUE ELSE building

\* ------------------------------------------------------------- results
NoResult == [kind |-> "none"]
Value(v) == [kind |-> "value", value |-> v]
Raise(message) == [kind |-> "error", message |-> message]
Undefined == <<>>

NoArg == [repository |-> <<>>, head |-> <<>>, webSocket |-> FALSE]
NoListing == [called |-> FALSE, value |-> {}, names |-> {}]

NoMutation == [op |-> "none", key |-> "", value |-> Null]
NoProbe == [done |-> FALSE, pairs |-> <<>>, ids |-> <<>>]
NoRequest == [method |-> "", url |-> <<>>, body |-> "", signature |-> <<>>]
NoLock == [present |-> FALSE, project |-> "", action |-> ""]
HookStart == [lock |-> NoLock, exited |-> FALSE, ran |-> {}, status |-> 0,
              req |-> NoRequest]

\* the programs outside the orchestrator, before they have done anything
AuxInit ==
  /\ storage = init
  /\ last = NoMutation
  /\ probe = NoProbe
  /\ hook = HookStart

\* a getRandomPort call that never leaves its while loop blocks the only thread
Looping == \E c \in Calls : pc[c] = "looping"

Init ==
  /\ objs = EmptyObject
  /\ services = init
  /\ serviceKeys = init
  /\ building = FALSE
  /\ running = EmptyObject
  /\ nginxConf = EmptyObject
  /\ nginxLive = EmptyObject
  /\ pc = [c \in Calls |-> "idle"]
  /\ arg = [c \in Calls |-> NoArg]
  /\ result = [c \in Calls |-> NoResult]
  /\ timers = {}
  /\ cfgOf = [c \in Calls |-> Null]
  /\ rb = [c \in Calls |-> "none"]
  /\ pos = [c \in Calls |-> 1]
  /\ steps = [c \in Calls |-> <<>>]
  /\ thrown = [c \in Calls |-> NoError]
  /\ unhandled = {}
  /\ logged = {}
  /\ listing = NoListing
  /\ turns = 0
  /\ hosted = Repositories
  /\ AuxInit

\* one more step, within the bound
tick == /\ turns < MaxTurns
        /\ turns' = turns + 1
        /\ hosted' = hosted
        /\ UNCHANGED aux

\* ---- rebuildService, one turn of it
\* writes back what the turn did to the adapters' state and to the execution
commit(c, ref, out, starts, failAt) ==
  /\ out.status \in {"suspended", "done", "failed"}
  /\ (out.status = "failed") <=> (failAt # "none")
  /\ objs' = out.w.objs
  /\ running' = out.w.running
  /\ nginxConf' = out.w.nginxConf
  /\ nginxLive' = out.w.nginxLive
  /\ building' = buildingAfter(starts, out.status)
  /\ cfgOf' = [cfgOf EXCEPT ![c] = ref]
  /\ rb' = [rb EXCEPT ![c] = out.status]
  /\ pos' = [pos EXCEPT ![c] = out.next]
  /\ steps' = [steps EXCEPT ![c] = out.steps]
  /\ thrown' = [thrown EXCEPT ![c] =
                  IF out.status = "failed" THEN stepError(failAt) ELSE NoError]

\* rebuildService(cloudyServiceConfig) from its call to the await on line 69
rebuildService(c, ref, failAt) ==
  LET st0 == [w |-> world, steps |-> <<>>, next |-> 1, status |-> "running"]
  IN /\ failAt \in {"build", "stop", "run", "none"}
     /\ commit(c, ref, runFrom(rebuildOrder, 1, ref, failAt, st0), TRUE, failAt)

\* the await on line 69 settles: configureService failed, or it wrote the
\* configuration and the rest of the try block runs
resumeRebuild(c, failAt) ==
  LET ref == cfgOf[c]
      st0 == [w |-> world, steps |-> steps[c], next |-> pos[c], status |-> "running"]
      out == IF failAt = "configure"
             THEN [st0 EXCEPT !.status = "failed"]
             ELSE runFrom(rebuildOrder, pos[c], ref, failAt,
                          [st0 EXCEPT !.w = StepEffect("configure", ref, world)])
  IN /\ failAt \in {"configure", "reload", "none"}
     /\ commit(c, ref, out, FALSE, failAt)

\* where the outcome of rebuildService goes: rebuildRepository awaits and
\* returns it (line 60); the timer callback of deployService drops the
\* promise (line 41), so a rejection has no handler
propagate(c, failAt) ==
  IF c \in RebuildCalls
  THEN /\ pc' = [pc EXCEPT ![c] =
                   IF failAt # "none" THEN "thrown"
                   ELSE IF rb'[c] = "done" THEN "returned" ELSE "awaiting"]
       /\ result' = [result EXCEPT ![c] =
                   IF failAt # "none" THEN Raise(stepError(failAt))
                   ELSE IF rb'[c] = "done" THEN Value(Undefined) ELSE NoResult]
       /\ UNCHANGED unhandled
  ELSE /\ unhandled' = IF failAt # "none"
                       THEN unhandled \cup {[call |-> c, error |-> stepError(failAt)]}
                       ELSE unhandled
       /\ UNCHANGED <<pc, result>>

\* ---- deployService
\* deployService(service) called: runs up to the await of the fetch (line 33)
DeployService(c, service) ==
  /\ ~Looping
  /\ c \in DeployCalls /\ pc[c] = "idle"
  /\ \A d \in DeployCalls : d < c => pc[d] # "idle"
  /\ pc' = [pc EXCEPT ![c] = "fetch"]
  /\ arg' = [arg EXCEPT ![c] = service]
  /\ UNCHANGED <<objs, services, serviceKeys, building, running, nginxConf,
                 nginxLive, result, timers, cfgOf, rb, pos, steps, thrown,
                 unhandled, logged, listing>>
  /\ tick

\* the catch block, lines 45-49
deployCatch(c, cause) ==
  /\ logged' = logged \cup {"Failed to process service"}
  /\ result' = [result EXCEPT ![c] = Raise(<<"Service creation failed: ", cause>>)]
  /\ pc' = [pc EXCEPT ![c] = "thrown"]
  /\ UNCHANGED <<objs, services, serviceKeys, building, running, nginxConf,
                 nginxLive, arg, timers, cfgOf, rb, pos, steps, thrown,
                 unhandled, listing>>
  /\ tick

\* Github.fetchServiceConfiguration rejects
DeployFetchFail(c) ==
  /\ ~Looping
  /\ c \in DeployCalls /\ pc[c] = "fetch"
  /\ deployCatch(c, "fetch failed")

\* as DeployMergeFail, had the throwing statement come after setTimeout
DeployMergeFailLate(c) ==
  /\ ~Looping
  /\ c \in DeployCalls /\ pc[c] = "fetch"
  /\ objs' = (c :> createServiceConfiguration(arg[c], PortBase, PortBase)) @@ objs
  /\ timers' = timers \cup {c}
  /\ logged' = logged \cup {"Failed to process service"}
  /\ result' = [result EXCEPT ![c] = Raise(<<"Service creation failed: ", "TypeError">>)]
  /\ pc' = [pc EXCEPT ![c] = "thrown"]
  /\ UNCHANGED <<services, serviceKeys, building, running, nginxConf,
                 nginxLive, arg, cfgOf, rb, pos, steps, thrown, unhandled,
                 listing>>
  /\ tick

\* the fetch resolves with a configuration createServiceConfiguration cannot
\* merge: getServiceId / getServiceType throw (lines 78-79), before any port
\* is drawn
DeployMergeFail(c) ==
  /\ ~Looping
  /\ c \in DeployCalls /\ pc[c] = "fetch"
  /\ deployCatch(c, "TypeError")

\* the fetch resolves: createServiceConfiguration draws the ports (each
\* getRandomPort lists the services first), the timer is set, the id returned
DeployConfigured(c, httpPort, wsPort) ==
  LET listed == getAllServices(objs, services, running)
      free == FreePorts(listed.value)
      cfg == createServiceConfiguration(arg[c], httpPort, wsPort)
  IN /\ ~Looping
     /\ c \in DeployCalls /\ pc[c] = "fetch"
     /\ httpPort \in free
     /\ IF arg[c].webSocket THEN wsPort \in free ELSE wsPort = httpPort
     /\ objs' = (c :> cfg) @@ listed.heap
     /\ timers' = timers \cup {c}
     /\ result' = [result EXCEPT ![c] = Value(cfg.id)]
     /\ pc' = [pc EXCEPT ![c] = "returned"]
     /\ UNCHANGED <<services, serviceKeys, building, running, nginxConf,
                    nginxLive, arg, cfgOf, rb, pos, steps, thrown, unhandled,
                    logged, listing>>
     /\ tick

\* the fetch resolves and every port is in use: the while loop of
\* getRandomPort (lines 161-165) never returns
DeployPortLoop(c) ==
  LET listed == getAllServices(objs, services, running)
  IN /\ ~Looping
     /\ c \in DeployCalls /\ pc[c] = "fetch"
     /\ FreePorts(listed.value) = {}
     /\ objs' = listed.heap
     /\ pc' = [pc EXCEPT ![c] = "looping"]
     /\ UNCHANGED <<services, serviceKeys, building, running, nginxConf,
                    nginxLive, arg, result, timers, cfgOf, rb, pos, steps,
                    thrown, unhandled, logged, listing>>
     /\ tick

\* the setTimeout callback (lines 39-42): persist, then start the rebuild
DeployTimer(c, failAt) ==
  /\ ~Looping
  /\ c \in timers
  /\ timers' = timers \ {c}
  /\ services' = set(services, objs[c].id, c, objs)
  /\ rebuildService(c, c, failAt)
  /\ propagate(c, failAt)
  /\ UNCHANGED <<serviceKeys, arg, logged, listing>>
  /\ tick

\* ---- rebuildRepository
\* as RebuildRepositoryNotFound, had the flag been set before the lookup
RebuildRepositoryNotFoundFlagged(c, repository, head) ==
  /\ ~Looping
  /\ c \in RebuildCalls /\ pc[c] = "idle"
  /\ \A d \in RebuildCalls : d < c => pc[d] # "idle"
  /\ get(services, getServiceId(repository, head)) = Null
  /\ arg' = [arg EXCEPT ![c] = [repository |-> repository, head |-> head,
                                webSocket |-> FALSE]]
  /\ pc' = [pc EXCEPT ![c] = "thrown"]
  /\ result' = [result EXCEPT ![c] = Raise(notFound)]
  /\ building' = TRUE
  /\ UNCHANGED <<objs, services, serviceKeys, running, nginxConf,
                 nginxLive, timers, cfgOf, rb, pos, steps, thrown, unhandled,
                 logged, listing>>
  /\ tick

\* no record under the identity (lines 56-58)
RebuildRepositoryNotFound(c, repository, head) ==
  /\ ~Looping
  /\ c \in RebuildCalls /\ pc[c] = "idle"
  /\ \A d \in RebuildCalls : d < c => pc[d] # "idle"
  /\ get(services, getServiceId(repository, head)) = Null
  /\ arg' = [arg EXCEPT ![c] = [repository |-> repository, head |-> head,
                                webSocket |-> FALSE]]
  /\ pc' = [pc EXCEPT ![c] = "thrown"]
  /\ result' = [result EXCEPT ![c] = Raise(notFound)]
  /\ UNCHANGED <<objs, services, serviceKeys, building, running, nginxConf,
                 nginxLive, timers, cfgOf, rb, pos, steps, thrown, unhandled,
                 logged, listing>>
  /\ tick

\* the record is found and rebuildService runs on the stored object (line 60)
RebuildRepository(c, repository, head, failAt) ==
  LET serviceConfiguration == get(services, getServiceId(repository, head))
  IN /\ ~Looping
     /\ c \in RebuildCalls /\ pc[c] = "idle"
     /\ \A d \in RebuildCalls : d < c => pc[d] # "idle"
     /\ serviceConfiguration # Null
     /\ arg' = [arg EXCEPT ![c] = [repository |-> repository, head |-> head,
                                   webSocket |-> FALSE]]
     /\ rebuildService(c, serviceConfiguration, failAt)
     /\ propagate(c, failAt)
     /\ UNCHANGED <<services, serviceKeys, timers, logged, listing>>
     /\ tick

\* the awaited Nginx.configureService of a suspended rebuild settles
RebuildSettled(c, failAt) ==
  /\ ~Looping
  /\ rb[c] = "suspended"
  /\ resumeRebuild(c, failAt)
  /\ propagate(c, failAt)
  /\ UNCHANGED <<services, serviceKeys, arg, timers, logged, listing>>
  /\ tick

\* ---- the CLI's list command: Services.getAllServices() (docker.js:132)
GetAllServices ==
  LET listed == getAllServices(objs, services, running)
  IN /\ ~Looping
     /\ objs' = listed.heap
     /\ listing' = [called |-> TRUE, value |-> listed.value,
                    names |-> getRunningContainers(running)]
     /\ UNCHANGED <<services, serviceKeys, building, running, nginxConf,
                    nginxLive, pc, arg, result, timers, cfgOf, rb, pos, steps,
                    thrown, unhandled, logged>>
     /\ tick

\* ---- environment
\* a container stops or crashes out of band
ContainerExit(name) ==
  /\ name \in DOMAIN running
  /\ running' = Remove(running, name)
  /\ UNCHANGED <<objs, services, serviceKeys, building, nginxConf, nginxLive,
                 pc, arg, result, timers, cfgOf, rb, pos, steps, thrown,
                 unhandled, logged, listing>>
  /\ tick

\* a writeFile started by save(services) completes
ServicesWriteDone(snapshot) ==
  /\ snapshot \in services.writing
  /\ services' = writeFileDone(services, snapshot)
  /\ UNCHANGED <<objs, serviceKeys, building, running, nginxConf, nginxLive,
                 pc, arg, result, timers, cfgOf, rb, pos, steps, thrown,
                 unhandled, logged, listing>>
  /\ tick

Services == [repository : Repositories, head : Heads, webSocket : BOOLEAN]
StepNames == {"build", "stop", "run", "configure", "reload", "none"}

Next ==
  \/ \E c \in DeployCalls, service \in Services : DeployService(c, service)
  \/ \E c \in DeployCalls : DeployFetchFail(c)
  \/ \E c \in DeployCalls : DeployMergeFail(c)
  \/ \E c \in DeployCalls, httpPort \in PortSet, wsPort \in PortSet :
        DeployConfigured(c, httpPort, wsPort)
  \/ \E c \in DeployCalls : DeployPortLoop(c)
  \/ \E c \in DeployCalls, failAt \in StepNames : DeployTimer(c, failAt)
  \/ \E c \in RebuildCalls, repository \in Repositories, head \in Heads :
        RebuildRepositoryNotFound(c, repository, head)
  \/ \E c \in RebuildCalls, repository \in Repositories, head \in Heads,
        failAt \in StepNames : RebuildRepository(c, repository, head, failAt)
  \/ \E c \in Calls, failAt \in StepNames : RebuildSettled(c, failAt)
  \/ GetAllServices
  \/ \E name \in DOMAIN running : ContainerExit(name)
  \/ \E snapshot \in services.writing : ServicesWriteDone(snapshot)

Spec == Init /\ [][Next]_vars

\* ------------------------------------------------- service keys
\* getServiceKey(repository), lines 113-116
getServiceKeyByName(repository) == get(serviceKeys, repository)

getServiceKey(repository) == get(serviceKeys, sha256(repository))

\* Github.exists(repository)
exists(repository) == repository \in hosted

KeyArg(repository) == [repository |-> repository, head |-> <<>>, webSocket |-> FALSE]

\* createServiceKey('') : the guard of lines 119-121 throws
CreateServiceKeyInvalid(c) ==
  /\ c \in KeyCalls /\ pc[c] = "idle"
  /\ \A d \in KeyCalls : d < c => pc[d] # "idle"
  /\ arg' = [arg EXCEPT ![c] = KeyArg(<<>>)]
  /\ pc' = [pc EXCEPT ![c] = "thrown"]
  /\ result' = [result EXCEPT ![c] = Raise("Invalid repository")]
  /\ UNCHANGED <<objs, services, serviceKeys, building, running, nginxConf,
                 nginxLive, timers, cfgOf, rb, pos, steps, thrown, unhandled,
                 logged, listing>>
  /\ tick

\* createServiceKey(repository) called: runs up to the await of line 123
CreateServiceKey(c, repository) ==
  /\ c \in KeyCalls /\ pc[c] = "idle"
  /\ \A d \in KeyCalls : d < c => pc[d] # "idle"
  /\ arg' = [arg EXCEPT ![c] = KeyArg(repository)]
  /\ pc' = [pc EXCEPT ![c] = "exists"]
  /\ UNCHANGED <<objs, services, serviceKeys, building, running, nginxConf,
                 nginxLive, result, timers, cfgOf, rb, pos, steps, thrown,
                 unhandled, logged, listing>>
  /\ tick

\* the call throws message (lines 125 and 130)
keyThrow(c, message) ==
  /\ pc' = [pc EXCEPT ![c] = "thrown"]
  /\ result' = [result EXCEPT ![c] = Raise(message)]
  /\ UNCHANGED <<objs, services, serviceKeys, building, running, nginxConf,
                 nginxLive, arg, timers, cfgOf, rb, pos, steps, thrown,
                 unhandled, logged, listing>>
  /\ tick

\* Github.exists resolved false
CreateServiceKeyNotFound(c) ==
  /\ c \in KeyCalls /\ pc[c] = "exists"
  /\ ~exists(arg[c].repository)
  /\ keyThrow(c, "Repository not found")

\* the repository exists and has a key already
CreateServiceKeyDuplicate(c) ==
  /\ c \in KeyCalls /\ pc[c] = "exists"
  /\ exists(arg[c].repository)
  /\ getServiceKey(arg[c].repository) # Null
  /\ keyThrow(c, "Service already exists")

\* the repository exists and has no key: a fresh key is stored and returned
\* (lines 133-138)
CreateServiceKeyCreated(c, serviceKey) ==
  /\ c \in KeyCalls /\ pc[c] = "exists"
  /\ exists(arg[c].repository)
  /\ getServiceKey(arg[c].repository) = Null
  /\ serviceKeys' = set(serviceKeys, sha256(arg[c].repository), serviceKey, EmptyObject)
  /\ pc' = [pc EXCEPT ![c] = "returned"]
  /\ result' = [result EXCEPT ![c] = Value(serviceKey)]
  /\ UNCHANGED <<objs, services, building, running, nginxConf, nginxLive, arg,
                 timers, cfgOf, rb, pos, steps, thrown, unhandled, logged,
                 listing>>
  /\ tick

\* a writeFile started by save(serviceKeys) completes
KeysWriteDone(snapshot) ==
  /\ snapshot \in serviceKeys.writing
  /\ serviceKeys' = writeFileDone(serviceKeys, snapshot)
  /\ UNCHANGED <<objs, services, building, running, nginxConf, nginxLive,
                 pc, arg, result, timers, cfgOf, rb, pos, steps, thrown,
                 unhandled, logged, listing>>
  /\ tick

KeyValues == 1 .. NumKeyValues

\* the source host holds any subset of the repositories
InitKeys ==
  /\ objs = EmptyObject
  /\ services = init
  /\ serviceKeys = init
  /\ building = FALSE
  /\ running = EmptyObject
  /\ nginxConf = EmptyObject
  /\ nginxLive = EmptyObject
  /\ pc = [c \in Calls |-> "idle"]
  /\ arg = [c \in Calls |-> NoArg]
  /\ result = [c \in Calls |-> NoResult]
  /\ timers = {}
  /\ cfgOf = [c \in Calls |-> Null]
  /\ rb = [c \in Calls |-> "none"]
  /\ pos = [c \in Calls |-> 1]
  /\ steps = [c \in Calls |-> <<>>]
  /\ thrown = [c \in Calls |-> NoError]
  /\ unhandled = {}
  /\ logged = {}
  /\ listing = NoListing
  /\ turns = 0
  /\ hosted \in SUBSET Repositories
  /\ AuxInit

NextKeys ==
  \/ \E c \in KeyCalls : CreateServiceKeyInvalid(c)
  \/ \E c \in KeyCalls, repository \in Repositories : CreateServiceKey(c, repository)
  \/ \E c \in KeyCalls : CreateServiceKeyNotFound(c)
  \/ \E c \in KeyCalls : CreateServiceKeyDuplicate(c)
  \/ \E c \in KeyCalls, serviceKey \in KeyValues : CreateServiceKeyCreated(c, serviceKey)
  \/ \E snapshot \in serviceKeys.writing : KeysWriteDone(snapshot)

SpecKeys == InitKeys /\ [][NextKeys]_vars

\* the orchestrator over behaviours of at most ShortTurns steps
InitShort ==
  /\ objs = EmptyObject
  /\ services = init
  /\ serviceKeys = init
  /\ building = FALSE
  /\ running = EmptyObject
  /\ nginxConf = EmptyObject
  /\ nginxLive = EmptyObject
  /\ pc = [c \in Calls |-> "idle"]
  /\ arg = [c \in Calls |-> NoArg]
  /\ result = [c \in Calls |-> NoResult]
  /\ timers = {}
  /\ cfgOf = [c \in Calls |-> Null]
  /\ rb = [c \in Calls |-> "none"]
  /\ pos = [c \in Calls |-> 1]
  /\ steps = [c \in Calls |-> <<>>]
  /\ thrown = [c \in Calls |-> NoError]
  /\ unhandled = {}
  /\ logged = {}
  /\ listing = NoListing
  /\ turns = MaxTurns - ShortTurns
  /\ hosted = Repositories
  /\ AuxInit

SpecShort == InitShort /\ [][Next]_vars

\* ------------------------------------ createServiceFromRepository
\* as registered, had the check of lines 144-146 been left out
registeredAlways(repository) == repository = repository

\* the check of lines 142-144: this.serviceKeys.has(sha256(repository))
registered(repository) == has(serviceKeys, sha256(repository))

\* createServiceFromRepository(repository, head) for a repository without a
\* service key: throws on line 145. The CLI reaches it through build, and
\* through reboot once per stored service (docker.js 93-101).
CreateServiceFromRepositoryUnregistered(c, repository, head) ==
  /\ ~Looping
  /\ c \in DeployCalls /\ pc[c] = "idle"
  /\ \A d \in DeployCalls : d < c => pc[d] # "idle"
  /\ ~registered(repository)
  /\ pc' = [pc EXCEPT ![c] = "thrown"]
  /\ arg' = [arg EXCEPT ![c] = [repository |-> repository, head |-> head,
                                webSocket |-> FALSE]]
  /\ result' = [result EXCEPT ![c] = Raise(notRegistered)]
  /\ UNCHANGED <<objs, services, serviceKeys, building, running, nginxConf,
                 nginxLive, timers, cfgOf, rb, pos, steps, thrown,
                 unhandled, logged, listing>>
  /\ tick

\* createServiceFromRepository(repository, head) for a registered repository:
\* runs up to the await of Github.getServiceFromRepository (line 148)
CreateServiceFromRepository(c, repository, head) ==
  /\ ~Looping
  /\ c \in DeployCalls /\ pc[c] = "idle"
  /\ \A d \in DeployCalls : d < c => pc[d] # "idle"
  /\ registered(repository)
  /\ pc' = [pc EXCEPT ![c] = "descriptor"]
  /\ arg' = [arg EXCEPT ![c] = [repository |-> repository, head |-> head,
                                webSocket |-> FALSE]]
  /\ UNCHANGED <<objs, services, serviceKeys, building, running, nginxConf,
                 nginxLive, result, timers, cfgOf, rb, pos, steps, thrown,
                 unhandled, logged, listing>>
  /\ tick

\* Github.getServiceFromRepository rejects: the error leaves
\* createServiceFromRepository as it is
GetServiceFromRepositoryFail(c) ==
  /\ ~Looping
  /\ c \in DeployCalls /\ pc[c] = "descriptor"
  /\ pc' = [pc EXCEPT ![c] = "thrown"]
  /\ result' = [result EXCEPT ![c] = Raise(<<"Descriptor request failed", "">>)]
  /\ UNCHANGED <<objs, services, serviceKeys, building, running, nginxConf,
                 nginxLive, arg, timers, cfgOf, rb, pos, steps, thrown,
                 unhandled, logged, listing>>
  /\ tick

\* Github.getServiceFromRepository resolves with the service descriptor:
\* deployService(service) is called (line 149) and runs up to its own await
GetServiceFromRepository(c, webSocket) ==
  /\ ~Looping
  /\ c \in DeployCalls /\ pc[c] = "descriptor"
  /\ pc' = [pc EXCEPT ![c] = "fetch"]
  /\ arg' = [arg EXCEPT ![c].webSocket = webSocket]
  /\ UNCHANGED <<objs, services, serviceKeys, building, running, nginxConf,
                 nginxLive, result, timers, cfgOf, rb, pos, steps, thrown,
                 unhandled, logged, listing>>
  /\ tick

\* the service keys loaded from the file: some repositories are registered
InitBuild ==
  /\ objs = EmptyObject
  /\ services = init
  /\ \E known \in SUBSET Repositories :
        serviceKeys = load([k \in {sha256(r) : r \in known} |-> 1])
  /\ building = FALSE
  /\ running = EmptyObject
  /\ nginxConf = EmptyObject
  /\ nginxLive = EmptyObject
  /\ pc = [c \in Calls |-> "idle"]
  /\ arg = [c \in Calls |-> NoArg]
  /\ result = [c \in Calls |-> NoResult]
  /\ timers = {}
  /\ cfgOf = [c \in Calls |-> Null]
  /\ rb = [c \in Calls |-> "none"]
  /\ pos = [c \in Calls |-> 1]
  /\ steps = [c \in Calls |-> <<>>]
  /\ thrown = [c \in Calls |-> NoError]
  /\ unhandled = {}
  /\ logged = {}
  /\ listing = NoListing
  /\ turns = 0
  /\ hosted = Repositories
  /\ AuxInit

\* the orchestrator driven through createServiceFromRepository only
NextBuild ==
  \/ \E c \in DeployCalls, repository \in Repositories, head \in Heads :
        CreateServiceFromRepositoryUnregistered(c, repository, head)
  \/ \E c \in DeployCalls, repository \in Repositories, head \in Heads :
        CreateServiceFromRepository(c, repository, head)
  \/ \E c \in DeployCalls : GetServiceFromRepositoryFail(c)
  \/ \E c \in DeployCalls, webSocket \in BOOLEAN :
        GetServiceFromRepository(c, webSocket)
  \/ \E c \in DeployCalls : DeployFetchFail(c)
  \/ \E c \in DeployCalls : DeployMergeFail(c)
  \/ \E c \in DeployCalls, httpPort \in PortSet, wsPort \in PortSet :
        DeployConfigured(c, httpPort, wsPort)
  \/ \E c \in DeployCalls : DeployPortLoop(c)
  \/ \E c \in DeployCalls, failAt \in StepNames : DeployTimer(c, failAt)
  \/ \E c \in DeployCalls, failAt \in StepNames : RebuildSettled(c, failAt)
  \/ \E snapshot \in services.writing : ServicesWriteDone(snapshot)

SpecBuild == InitBuild /\ [][NextBuild]_vars

\* ------------------------------------------- a FileStorage on its own
\* one more step of a program outside the orchestrator, within the bound
tock == /\ turns < MaxTurns
        /\ turns' = turns + 1
        /\ UNCHANGED core

StorageKeys == {"k1", "k2"}
\* JSON-serializable values: null, 0, false, '', and two truthy numbers
StorageValues == {Null, JsZero, JsFalse, JsEmptyString, 1, 2}

\* set(name, value) returns
StorageSet(name, value) ==
  /\ storage' = set(storage, name, value, EmptyObject)
  /\ last' = [op |-> "set", key |-> name, value |-> value]
  /\ UNCHANGED <<probe, hook>>
  /\ tock

\* delete(name) returns
StorageDelete(name) ==
  /\ storage' = delete(storage, name, EmptyObject)
  /\ last' = [op |-> "delete", key |-> name, value |-> Null]
  /\ UNCHANGED <<probe, hook>>
  /\ tock

\* one of the writeFile calls in flight completes
StorageWriteDone(snapshot) ==
  /\ snapshot \in storage.writing
  /\ storage' = writeFileDone(storage, snapshot)
  /\ last' = [op |-> "written", key |-> "", value |-> Null]
  /\ UNCHANGED <<probe, hook>>
  /\ tock

\* the process restarts once its writes have completed: init reads the file
StorageRestart ==
  /\ storage.writing = {}
  /\ last.op # "none"
  /\ storage' = load(storage.file)
  /\ last' = [op |-> "restart", key |-> "", value |-> Null]
  /\ UNCHANGED <<probe, hook>>
  /\ tock

InitStorage ==
  /\ objs = EmptyObject
  /\ services = init
  /\ serviceKeys = init
  /\ building = FALSE
  /\ running = EmptyObject
  /\ nginxConf = EmptyObject
  /\ nginxLive = EmptyObject
  /\ pc = [c \in Calls |-> "idle"]
  /\ arg = [c \in Calls |-> NoArg]
  /\ result = [c \in Calls |-> NoResult]
  /\ timers = {}
  /\ cfgOf = [c \in Calls |-> Null]
  /\ rb = [c \in Calls |-> "none"]
  /\ pos = [c \in Calls |-> 1]
  /\ steps = [c \in Calls |-> <<>>]
  /\ thrown = [c \in Calls |-> NoError]
  /\ unhandled = {}
  /\ logged = {}
  /\ listing = NoListing
  /\ hosted = Repositories
  /\ turns = MaxTurns - StorageTurns
  /\ AuxInit

NextStorage ==
  \/ \E name \in StorageKeys, value \in StorageValues : StorageSet(name, value)
  \/ \E name \in StorageKeys : StorageDelete(name)
  \/ \E snapshot \in storage.writing : StorageWriteDone(snapshot)
  \/ StorageRestart

SpecStorage == InitStorage /\ [][NextStorage]_vars

\* ------------------------------------------- getServiceId on its own
RECURSIVE StringsOfLength(_)
StringsOfLength(n) ==
  IF n = 0 THEN {<<>>}
  ELSE {<<ch>> \o t : ch \in Alphabet, t \in StringsOfLength(n - 1)}
Strings == UNION {StringsOfLength(n) : n \in 1 .. MaxLen}

\* getServiceId is called for both pairs
GetServiceId ==
  /\ ~probe.done
  /\ probe' = [probe EXCEPT !.done = TRUE,
                  !.ids = <<getServiceId(probe.pairs[1][1], probe.pairs[1][2]),
                            getServiceId(probe.pairs[2][1], probe.pairs[2][2])>>]
  /\ UNCHANGED <<storage, last, hook>>
  /\ tock

InitId ==
  /\ objs = EmptyObject
  /\ services = init
  /\ serviceKeys = init
  /\ building = FALSE
  /\ running = EmptyObject
  /\ nginxConf = EmptyObject
  /\ nginxLive = EmptyObject
  /\ pc = [c \in Calls |-> "idle"]
  /\ arg = [c \in Calls |-> NoArg]
  /\ result = [c \in Calls |-> NoResult]
  /\ timers = {}
  /\ cfgOf = [c \in Calls |-> Null]
  /\ rb = [c \in Calls |-> "none"]
  /\ pos = [c \in Calls |-> 1]
  /\ steps = [c \in Calls |-> <<>>]
  /\ thrown = [c \in Calls |-> NoError]
  /\ unhandled = {}
  /\ logged = {}
  /\ listing = NoListing
  /\ hosted = Repositories
  /\ turns = 0
  /\ storage = init
  /\ last = NoMutation
  /\ hook = HookStart
  /\ \E r1 \in Strings, h1 \in Strings, r2 \in Strings, h2 \in Strings :
        probe = [done |-> FALSE, pairs |-> <<(<<r1, h1>>), (<<r2, h2>>)>>, ids |-> <<>>]

NextId == GetServiceId

SpecId == InitId /\ [][NextId]_vars

\* ------------------------------------------- the webhook front end
\* the secret read from .key (line 22) and a secret a stranger may try
httpSecret == "key"
Secrets == {httpSecret, "guess"}
Bodies == {"b1", "b2"}
\* configuration.projects: the service names findProject knows
Projects == {"web"}
Methods == {"GET", "POST", "PUT"}
\* request urls as their path segments: / is the empty sequence
Urls == {<<>>, <<"update">>, <<"redeployAll">>, <<"build">>,
         <<"build", "web">>, <<"deploy", "web">>, <<"build", "zzz">>,
         <<"discover">>, <<"status">>, <<"other">>}

\* 'sha1=' + createHmac('sha1', secret).update(body).digest('hex')
hmac(secret, body) == <<"sha1=", secret, body>>
NoHeader == <<>>
\* what x-hub-signature may hold: nothing, or a signature of some body
\* under some secret
Signatures == {NoHeader} \cup {hmac(secret, body) : secret \in Secrets, body \in Bodies}
Requests == [method : Methods, url : Urls, body : Bodies, signature : Signatures]

\* as invalidSignature, had a request without the header been let through
invalidSignatureIfPresent(req) ==
  /\ req.method = "POST"
  /\ req.signature # NoHeader
  /\ hmac(httpSecret, req.body) # req.signature

\* the test of line 210
invalidSignature(req) ==
  /\ req.method = "POST"
  /\ hmac(httpSecret, req.body) # req.signature

\* the process ends: process.exit(0), or an exception nobody catches
exit(h) == [h EXCEPT !.exited = TRUE]
updateRepository(h) == [h EXCEPT !.ran = @ \cup {"git pull"}]
redeployAllImages(h) == [h EXCEPT !.ran = @ \cup {"deploy all"}]

\* redeploySpecificImage(req, res), lines 96-110; the url has matched
\* /^\/(build|deploy)/ and the destructuring of line 97 throws when it does
\* not match /^\/(build|deploy)\/(.+)/
redeploySpecificImage(h, req) ==
  IF Len(req.url) < 2 THEN exit(h)
  ELSE IF req.url[2] \in Projects
  THEN exit(updateRepository(
         [h EXCEPT !.status = 201,
                   !.lock = [present |-> TRUE, project |-> req.url[2],
                             action |-> req.url[1]]]))
  ELSE exit(updateRepository([h EXCEPT !.status = 404]))

\* the switch of lines 217-252
route(h, req) ==
  LET isPost == req.method = "POST"
      isGet == req.method = "GET"
  IN IF isPost /\ req.url = <<"update">>
     THEN exit(updateRepository(
            [h EXCEPT !.status = 200,
                      !.lock = [present |-> TRUE, project |-> "", action |-> ""]]))
     ELSE IF isPost /\ req.url = <<"redeployAll">>
     THEN [redeployAllImages(h) EXCEPT !.status = 201]
     ELSE IF isPost /\ Len(req.url) >= 1 /\ req.url[1] \in {"build", "deploy"}
     THEN redeploySpecificImage(h, req)
     ELSE IF isGet /\ req.url \in {<<"discover">>, <<"status">>, <<>>}
     THEN [h EXCEPT !.status = 200]
     ELSE [h EXCEPT !.status = 404]

\* the callback of readBody (lines 207-253) runs for one request
Request(req) ==
  /\ ~hook.exited
  /\ hook' = IF invalidSignature(req)
             THEN [hook EXCEPT !.status = 401, !.req = req]
             ELSE route([hook EXCEPT !.req = req], req)
  /\ UNCHANGED <<storage, last, probe>>
  /\ tock

\* checkBuildLock(), lines 179-192, as the process starts again
checkBuildLock(h) ==
  IF ~h.lock.present THEN h
  ELSE LET done == IF h.lock.project # ""
                   THEN IF h.lock.action = "build"
                        THEN {"build " \o h.lock.project, "deploy " \o h.lock.project}
                        ELSE {"deploy " \o h.lock.project}
                   ELSE {"build all", "deploy all"}
       IN [h EXCEPT !.lock = NoLock, !.ran = @ \cup done]

\* the process is started again after it has ended
Start ==
  /\ hook.exited
  /\ hook' = checkBuildLock([hook EXCEPT !.exited = FALSE, !.status = 0,
                                         !.req = NoRequest])
  /\ UNCHANGED <<storage, last, probe>>
  /\ tock

InitHook ==
  /\ objs = EmptyObject
  /\ services = init
  /\ serviceKeys = init
  /\ building = FALSE
  /\ running = EmptyObject
  /\ nginxConf = EmptyObject
  /\ nginxLive = EmptyObject
  /\ pc = [c \in Calls |-> "idle"]
  /\ arg = [c \in Calls |-> NoArg]
  /\ result = [c \in Calls |-> NoResult]
  /\ timers = {}
  /\ cfgOf = [c \in Calls |-> Null]
  /\ rb = [c \in Calls |-> "none"]
  /\ pos = [c \in Calls |-> 1]
  /\ steps = [c \in Calls |-> <<>>]
  /\ thrown = [c \in Calls |-> NoError]
  /\ unhandled = {}
  /\ logged = {}
  /\ listing = NoListing
  /\ hosted = Repositories
  /\ turns = MaxTurns - HookTurns
  /\ AuxInit

NextHook ==
  \/ \E req \in Requests : Request(req)
  \/ Start

SpecHook == InitHook /\ [][NextHook]_vars

\* --------------------- the orchestrator while no container exits by itself
InitRace ==
  /\ objs = EmptyObject
  /\ services = init
  /\ serviceKeys = init
  /\ building = FALSE
  /\ running = EmptyObject
  /\ nginxConf = EmptyObject
  /\ nginxLive = EmptyObject
  /\ pc = [c \in Calls |-> "idle"]
  /\ arg = [c \in Calls |-> NoArg]
  /\ result = [c \in Calls |-> NoResult]
  /\ timers = {}
  /\ cfgOf = [c \in Calls |-> Null]
  /\ rb = [c \in Calls |-> "none"]
  /\ pos = [c \in Calls |-> 1]
  /\ steps = [c \in Calls |-> <<>>]
  /\ thrown = [c \in Calls |-> NoError]
  /\ unhandled = {}
  /\ logged = {}
  /\ listing = NoListing
  /\ hosted = Repositories
  /\ turns = MaxTurns - RaceTurns
  /\ AuxInit

NextRace ==
  \/ \E c \in DeployCalls, service \in Services : DeployService(c, service)
  \/ \E c \in DeployCalls : DeployFetchFail(c)
  \/ \E c \in DeployCalls, httpPort \in PortSet, wsPort \in PortSet :
        DeployConfigured(c, httpPort, wsPort)
  \/ \E c \in DeployCalls, failAt \in StepNames : DeployTimer(c, failAt)
  \/ \E c \in RebuildCalls, repository \in Repositories, head \in Heads,
        failAt \in StepNames : RebuildRepository(c, repository, head, failAt)
  \/ \E c \in Calls, failAt \in StepNames : RebuildSettled(c, failAt)

SpecRace == InitRace /\ [][NextRace]_vars

\* ================================================================ claims
StoredRefs == {services.data[k] : k \in DOMAIN services.data}
Suspended == {c \in Calls : rb[c] = "suspended"}
IsPrefix(s, t) == Len(s) <= Len(t) /\ \A i \in 1 .. Len(s) : s[i] = t[i]
LastOf(s) == s[Len(s)]

\* C1: no port is assigned to two different services: the port sequences of
\* the records stored under different identities are pairwise disjoint.
C1_PortsDisjoint ==
  \A i, j \in DOMAIN services.data :
     i # j => Range(objs[services.data[i]].ports)
                \cap Range(objs[services.data[j]].ports) = {}

\* C2: every service a getAllServices call returns is online if and only if
\* its id is in the running-container list that call read.
C2_OnlineIffRunning ==
  listing.called =>
     \A service \in listing.value : service.online <=> (service.id \in listing.names)

\* C3: no record of the services store carries the online flag, neither in
\* the in-memory collection nor in a snapshot written or being written to disk.
C3_OnlineNeverStored ==
  /\ \A r \in StoredRefs : ~objs[r].online
  /\ \A k \in DOMAIN services.file : ~services.file[k].online
  /\ \A snapshot \in services.writing : \A k \in DOMAIN snapshot : ~snapshot[k].online

\* C4: at no time are two rebuildService executions both started and not
\* yet finished.
C4_NoOverlappingRebuilds == Cardinality(Suspended) <= 1

\* C5: every rebuildService execution issues build, stop, run, configure,
\* reload in that order and nothing after a step that failed; a failed build
\* leaves the running containers alone; a reload is issued only once the
\* configuration of this rebuild has been written.
C5_StepOrderState ==
  \A c \in Calls :
     /\ IsPrefix(steps[c], <<"build", "stop", "run", "configure", "reload">>)
     /\ rb[c] = "failed" => steps[c] # <<>> /\ LastOf(steps[c]) = thrown[c].step
     /\ rb[c] = "done" => Len(steps[c]) = 5

C5_StepOrderAction ==
  \A c \in Calls :
     /\ (rb[c] = "none" /\ rb'[c] = "failed" /\ thrown'[c].step = "build")
           => running' = running
     /\ (rb[c] = "suspended" /\ rb'[c] # "suspended" /\ LastOf(steps'[c]) = "reload")
           => /\ objs[cfgOf[c]].id \in DOMAIN nginxConf'
              /\ nginxConf'[objs[cfgOf[c]].id] = objs[cfgOf[c]].ports
              /\ rb'[c] = "done" => nginxLive' = nginxConf'

C5_StepOrder == [](C5_StepOrderState) /\ [][C5_StepOrderAction]_vars

\* a build failed while the previous container of the service was running
C5_Witness ==
  \E c \in Calls :
     /\ rb[c] = "failed" /\ thrown[c].step = "build"
     /\ objs[cfgOf[c]].id \in DOMAIN running

\* C6: when a step of rebuildService fails the flag is cleared, no later step
\* is issued and the failure reaches the caller unchanged: rebuildRepository
\* raises it, the timer callback of deployService gets it as a rejection.
C6_FailureState ==
  \A c \in Calls :
     rb[c] = "failed" =>
        /\ thrown[c] # NoError
        /\ LastOf(steps[c]) = thrown[c].step
        /\ c \in RebuildCalls => pc[c] = "thrown" /\ result[c] = Raise(thrown[c])
        /\ c \in DeployCalls => [call |-> c, error |-> thrown[c]] \in unhandled

C6_FailureAction ==
  \A c \in Calls : (rb[c] # "failed" /\ rb'[c] = "failed") => ~building'

C6_FailureClearsFlag == [](C6_FailureState) /\ [][C6_FailureAction]_vars

\* a rebuildRepository call failed at the reload, after its await
C6_Witness ==
  \E c \in RebuildCalls :
     rb[c] = "failed" /\ thrown[c].step = "reload" /\ ~building

\* C7: whenever deployService has returned an identity, the services store
\* holds a record under that identity.
C7_PersistedBeforeReturn ==
  \A c \in DeployCalls :
     result[c].kind = "value" => has(services, result[c].value)

\* C8: when the rebuild started by deployService fails, the caller still has
\* the identity, the failure is logged and is no unhandled rejection.
C8_DetachedFailureLogged ==
  \A c \in DeployCalls :
     rb[c] = "failed" =>
        /\ result[c].kind = "value"
        /\ thrown[c].message \in logged
        /\ \A u \in unhandled : u.call # c

\* C9: a deployService whose fetch or merge fails raises the deployment-failed
\* error around the cause, and changes neither the services store nor the
\* timers, the containers or the proxy, and starts no rebuild.
C9_FailedDeployState ==
  \A c \in DeployCalls :
     pc[c] = "thrown" =>
        /\ result[c].kind = "error"
        /\ result[c].message[1] = "Service creation failed: "
        /\ result[c].message[2] \in {"fetch failed", "TypeError"}
        /\ c \notin timers /\ c \notin StoredRefs
        /\ rb[c] = "none" /\ steps[c] = <<>>

C9_FailedDeployAction ==
  \A c \in DeployCalls :
     (pc[c] = "fetch" /\ pc'[c] = "thrown") =>
        /\ services' = services /\ objs' = objs /\ timers' = timers
        /\ steps' = steps /\ rb' = rb /\ running' = running
        /\ nginxConf' = nginxConf /\ nginxLive' = nginxLive

C9_FailedDeploy == [](C9_FailedDeployState) /\ [][C9_FailedDeployAction]_vars

\* a deploy failed at the merge while another service was already stored
C9_Witness ==
  \E c \in DeployCalls :
     /\ pc[c] = "thrown" /\ result[c].message[2] = "TypeError"
     /\ DOMAIN services.data # {}

\* C10: at most one createServiceKey call per repository succeeds, a stored
\* key never changes, a call for a registered repository raises, and a call
\* that raises (for a repository the host does not know, among others) leaves
\* the service-keys store as it was.
C10_KeysState ==
  /\ \A c, d \in KeyCalls :
        (c # d /\ result[c].kind = "value" /\ result[d].kind = "value")
           => arg[c].repository # arg[d].repository
  /\ \A repository \in Repositories \ hosted : ~has(serviceKeys, sha256(repository))
  /\ \A c \in KeyCalls :
        (pc[c] \in {"returned", "thrown"} /\ arg[c].repository \notin hosted)
           => pc[c] = "thrown"

C10_KeysAction ==
  /\ \A k \in DOMAIN serviceKeys.data :
        k \in DOMAIN serviceKeys.data' /\ serviceKeys.data'[k] = serviceKeys.data[k]
  /\ \A c \in KeyCalls :
        /\ (pc[c] # "thrown" /\ pc'[c] = "thrown") => serviceKeys' = serviceKeys
        /\ (pc[c] = "exists" /\ pc'[c] # "exists"
              /\ has(serviceKeys, sha256(arg[c].repository))) => pc'[c] = "thrown"

C10_KeysExclusive == [](C10_KeysState) /\ [][C10_KeysAction]_vars

\* two calls for one repository were both awaiting the host; one got the key,
\* the other was refused
C10_Witness ==
  \E c, d \in KeyCalls :
     /\ c # d /\ arg[c].repository = arg[d].repository
     /\ result[c].kind = "value"
     /\ result[d] = Raise("Service already exists")

\* C11: createServiceFromRepository for a repository with no service key
\* throws at once, without waiting for the source host and without a deploy:
\* the call changes nothing but its own outcome, and every configuration
\* object, stored record, container and build step belongs to a registered
\* repository.
C11_UnregisteredState ==
  /\ \A c \in DeployCalls :
        (pc[c] # "idle" /\ ~has(serviceKeys, sha256(arg[c].repository))) =>
          /\ pc[c] = "thrown"
          /\ result[c] = Raise(notRegistered)
          /\ c \notin DOMAIN objs /\ c \notin timers
          /\ rb[c] = "none" /\ steps[c] = <<>>
  /\ \A r \in DOMAIN objs : has(serviceKeys, sha256(objs[r].repository))
  /\ \A k \in DOMAIN services.data : services.data[k] \in DOMAIN objs
  /\ \A name \in DOMAIN running : \E r \in DOMAIN objs : objs[r].id = name
C11_UnregisteredAction ==
  \A c \in DeployCalls :
    (pc[c] = "idle" /\ pc'[c] # "idle"
       /\ ~has(serviceKeys, sha256(arg'[c].repository))) =>
      /\ pc'[c] = "thrown"
      /\ UNCHANGED <<objs, services, serviceKeys, building, running,
                     nginxConf, nginxLive, timers, rb, steps>>
C11_UnregisteredRaises == [](C11_UnregisteredState) /\ [][C11_UnregisteredAction]_vars
C11_Witness ==
  \E c, d \in DeployCalls :
    /\ result[c] = Raise(notRegistered)
    /\ rb[d] \in {"suspended", "done"} /\ DOMAIN running # {}

\* C12: rebuildRepository for an identity with no stored record throws the
\* not-found error; the call runs no build, stop, run or proxy step, leaves
\* the build-in-progress flag as it was and leaves the services store, the
\* containers and the proxy unchanged.
C12_NotFoundState ==
  \A c \in RebuildCalls :
    result[c] = Raise(notFound) =>
      pc[c] = "thrown" /\ rb[c] = "none" /\ steps[c] = <<>> /\ cfgOf[c] = Null
C12_NotFoundAction ==
  \A c \in RebuildCalls :
    (pc[c] = "idle" /\ pc'[c] # "idle"
       /\ getServiceId(arg'[c].repository, arg'[c].head) \notin DOMAIN services.data) =>
      /\ result'[c] = Raise(notFound)
      /\ UNCHANGED <<objs, services, building, running, nginxConf, nginxLive,
                     timers, rb, steps, unhandled>>
C12_NotFound == [](C12_NotFoundState) /\ [][C12_NotFoundAction]_vars
C12_Witness ==
  \E c \in RebuildCalls :
    /\ result[c] = Raise(notFound)
    /\ DOMAIN services.data # {}
    /\ Suspended # {}

\* C13: right after set(k, v) returns, get(k) returns v, for every
\* JSON-serializable v, the falsy ones included; right after delete(k)
\* returns, has(k) is false.
C13_RoundTrip ==
  /\ last.op = "set" => get(storage, last.key) = last.value
  /\ last.op = "delete" => ~has(storage, last.key)

\* C14: when set or delete has returned, the file holds the in-memory
\* collection; and once every write in flight has completed, the file holds
\* the collection as of the last mutation, so that a restart reloads it.
C14_Durable ==
  /\ last.op \in {"set", "delete"} => storage.file = storage.data
  /\ storage.writing = {} => storage.file = storage.data

\* C15: two different (repository, head) pairs get different identities,
\* and equal pairs the same identity.
C15_Injective ==
  probe.done =>
    ((probe.pairs[1] = probe.pairs[2]) <=> (probe.ids[1] = probe.ids[2]))

\* C16: port allocation ends: no call stays inside getRandomPort; when every
\* port of the range is assigned the call ends with an error instead.
C16_AllocationEnds == \A c \in Calls : pc[c] # "looping"

\* C18: in every configuration object of a service with a WebSocket channel
\* the two ports differ; in every one env.PORT is ports[0] and, when set,
\* env.WEBSOCKET_PORT is ports[1].
C18_PortsOfOneService ==
  \A r \in DOMAIN objs :
    /\ objs[r].webSocket => objs[r].ports[1] # objs[r].ports[2]
    /\ objs[r].env.PORT = objs[r].ports[1]
    /\ objs[r].env.WEBSOCKET_PORT # Null =>
          /\ Len(objs[r].ports) = 2
          /\ objs[r].env.WEBSOCKET_PORT = objs[r].ports[2]

\* C19: the build-in-progress flag is set only while some rebuildService
\* execution is in progress (started, and neither completed nor failed).
C19_FlagOnlyWhileRebuilding == Suspended = {} => ~building

\* C17: a POST request whose x-hub-signature is not the HMAC of its body
\* under the shared secret is answered 401 and writes no lock file, runs no
\* command and does not end the process; and a request that does any of
\* these is a POST carrying the matching signature.
C17_SideEffect ==
  \/ hook'.lock # hook.lock
  \/ hook'.ran # hook.ran
  \/ hook'.exited # hook.exited
C17_Unsigned ==
  /\ hook'.req.method = "POST"
  /\ hook'.req.signature # <<"sha1=", "key", hook'.req.body>>
C17_SignatureGuards ==
  [][hook'.req.method # "" =>
       /\ C17_Unsigned => (hook'.status = 401 /\ ~C17_SideEffect)
       /\ C17_SideEffect => (hook'.req.method = "POST" /\ ~C17_Unsigned)]_vars
C17_Witness ==
  /\ hook.status = 401
  /\ hook.req.method = "POST"
  /\ hook.req.signature \notin {<<>>, <<"sha1=", "key", hook.req.body>>}
  /\ hook.ran # {}
  /\ ~hook.exited

\* C20: once two rebuildService executions of the same identity have both
\* completed (and no other execution of that identity is pending or has
\* failed), a container named after the identity runs on the ports of the
\* record stored under the identity, and the proxy configuration in force
\* routes the identity to those ports.
C20_Executions(id) == {c \in Calls : cfgOf[c] # Null /\ objs[cfgOf[c]].id = id}
C20_ConsistentAfterRace ==
  \A id \in DOMAIN services.data :
    (/\ Cardinality(C20_Executions(id)) >= 2
     /\ \A c \in C20_Executions(id) : rb[c] = "done") =>
      LET ports == objs[services.data[id]].ports
      IN /\ id \in DOMAIN running /\ running[id] = ports
         /\ id \in DOMAIN nginxLive /\ nginxLive[id] = ports

====
